---- MODULE Spec2Model ----
(***************************************************************************)
(* OMAP4+ CPU idle driver (arch/arm/mach-omap2/cpuidle_omap4plus.c).       *)
(*                                                                         *)
(* The model follows the three cpuidle entry callbacks                     *)
(* (omap_enter_idle_simple, omap_enter_idle_smp, omap_enter_idle_coupled)  *)
(* statement by statement, one action per call or shared-memory access,    *)
(* each CPU with its own program counter.  The hardware (a CPU's power     *)
(* domain reaching OFF, an interrupt waking a sleeping CPU) and the        *)
(* cpuidle framework (which callback is invoked, with which index) are     *)
(* the environment.                                                        *)
(***************************************************************************)
EXTENDS Integers, Sequences, FiniteSets, TLC

(* ---------------------------------------------------------------- bounds *)

\* Number of entry-callback invocations explored in one behaviour.
MaxCalls == 5

(* ------------------------------------------------------------- constants *)

\* cpu_pd[NR_CPUS], cpu_clkdm[NR_CPUS], cpu_done[NR_CPUS]: OMAP4/5 are dual core.
NR_CPUS == 2

CPUS == 0 .. (NR_CPUS - 1)

ENODEV == 19

(* ----------------------------------------------------------- state table *)

\* omap4_idle_data[i]
omap4_idle_data(i) ==
    CASE i = 0 -> [cpu_pwrst |-> "ON",  mpu_pwrst |-> "ON"]
      [] i = 1 -> [cpu_pwrst |-> "OFF", mpu_pwrst |-> "CSWR"]
      [] i = 2 -> [cpu_pwrst |-> "OFF", mpu_pwrst |-> "OSWR"]

\* omap5_idle_data[i].  The table is written with the older field names
\* (cpu_state, mpu_state, mpu_logic_state); MPU RET with logic RET is CSWR,
\* MPU RET with logic OFF is OSWR, as the driver's state descriptions say.
omap5_idle_data(i) ==
    CASE i = 0 -> [cpu_pwrst |-> "ON",   mpu_pwrst |-> "ON"]
      [] i = 1 -> [cpu_pwrst |-> "CSWR", mpu_pwrst |-> "CSWR"]
      [] i = 2 -> [cpu_pwrst |-> "OFF",  mpu_pwrst |-> "OSWR"]

\* omap4_idle_driver.states[i].enter
omap4_idle_driver(i) ==
    CASE i = 0 -> "simple"
      [] i = 1 -> "coupled"
      [] i = 2 -> "coupled"

\* omap5_idle_driver.states[i].enter
omap5_idle_driver(i) ==
    CASE i = 0 -> "simple"
      [] i = 1 -> "smp"
      [] i = 2 -> "coupled"

\* ARRAY_SIZE(omap4_idle_data) = ARRAY_SIZE(omap5_idle_data)
StateIdx == 0 .. 2

VARIABLES
    soc,            \* "omap44xx", "omap54xx" or "other" (cpu_is_omap44xx, soc_is_omap54xx)
    online,         \* cpu_online_mask
    lookup,         \* which pwrdm_lookup / clkdm_lookup calls find their domain
    init_ret,       \* <<v>> once omap4_idle_init has returned v, <<>> before
    state_ptr,      \* "null", "omap4_idle_data" or "omap5_idle_data"
    driver,         \* the registered cpuidle driver: "none", "omap4_idle", "omap5_idle"
    bc_on,          \* CPUs on which omap_setup_broadcast_timer has run
    pc,             \* per CPU: where it is in its entry callback ("idle": outside)
    index,          \* per CPU: the callback's index argument
    requested,      \* per CPU: the index the framework asked for
    ret,            \* per CPU: <<v>> once the callback has returned v, <<>> before
    cpu_done,       \* cpu_done[NR_CPUS]
    abort_barrier,  \* atomic_t abort_barrier
    mpu_state_vote, \* cx->mpu_state_vote, per state table entry
    mpu_lock,       \* the set of CPUs holding mpu_lock (empty when free)
    mpu_next,       \* the target last commanded to the MPU power domain
    fpwrst,         \* per CPU: what pwrdm_read_fpwrst(cpu_pd[cpu]) reports
    trace,          \* per CPU: the calls it made in its current (or last) callback
    mpu_log,        \* every command issued to mpu_pd so far, in order
    calls,          \* number of callback invocations so far
    saw,            \* what ended CPU0's wait loop in this episode: "off", "done", or "none"
    quorums,        \* how many times a vote has completed a full quorum
    set_err,         \* per CPU: a pwrdm_set_*fpwrst call of its callback returned an error
    done_reads      \* which CPU has read which completion flag: records [by, flag]

vars == <<soc, online, lookup, init_ret, state_ptr, driver, bc_on, pc, index,
          requested, ret, cpu_done, abort_barrier, mpu_state_vote, mpu_lock,
          mpu_next, fpwrst, trace, mpu_log, calls, saw, quorums, set_err, done_reads>>

envVars  == <<soc, online, lookup>>
initVars == <<init_ret, state_ptr, driver, bc_on>>

(* ------------------------------------------------------------- helpers *)

\* state_ptr + index
cx(i) == IF state_ptr = "omap4_idle_data" THEN omap4_idle_data(i) ELSE omap5_idle_data(i)

\* The enter callback the registered driver has for state i.
EnterFn(i) == IF driver = "omap4_idle" THEN omap4_idle_driver(i) ELSE omap5_idle_driver(i)

\* num_online_cpus()
num_online_cpus == Cardinality(online)

Log(c, ev) == [trace EXCEPT ![c] = Append(@, ev)]

\* A command to mpu_pd (pwrdm_set_fpwrst / pwrdm_set_next_fpwrst), as it is logged.
MpuCmd(c, fn, st) == [cpu |-> c, fn |-> fn, st |-> st]

\* The result of a pwrdm_set_fpwrst / pwrdm_set_next_fpwrst call: the request is
\* accepted, or the call returns an error.
SetResult(c) == \E ok \in BOOLEAN : set_err' = [set_err EXCEPT ![c] = @ \/ ~ok]

\* CPU c reads cpu_done[i].
ReadFlag(c, i) == done_reads' = done_reads \cup {[by |-> c, flag |-> i]}

Count(seq, ev) == Cardinality({k \in 1 .. Len(seq) : seq[k] = ev})

(* ---------------------------------------------------------------- Init *)

Init ==
    /\ soc \in {"omap44xx", "omap54xx", "other"}
    /\ online \in {{0}, {0, 1}}
    /\ lookup \in [{"mpu_pwrdm", "cpu0_pwrdm", "cpu1_pwrdm", "mpu0_clkdm", "mpu1_clkdm"} -> BOOLEAN]
    /\ init_ret = <<>>
    /\ state_ptr = "null"
    /\ driver = "none"
    /\ bc_on = {}
    /\ pc = [c \in CPUS |-> "idle"]
    /\ index = [c \in CPUS |-> 0]
    /\ requested = [c \in CPUS |-> 0]
    /\ ret = [c \in CPUS |-> <<>>]
    /\ cpu_done = [c \in CPUS |-> FALSE]
    /\ abort_barrier = 0
    /\ mpu_state_vote = [i \in StateIdx |-> 0]
    /\ mpu_lock = {}
    /\ mpu_next = "ON"
    /\ fpwrst = [c \in CPUS |-> "ON"]
    /\ trace = [c \in CPUS |-> <<>>]
    /\ mpu_log = <<>>
    /\ calls = 0
    /\ saw = "none"
    /\ quorums = 0
    /\ done_reads = {}
    /\ set_err = [c \in CPUS |-> FALSE]

(* ----------------------------------------------------- omap4_idle_init *)

\* Faulty variant of omap4_idle_init: the broadcast timers are configured
\* before the clock-domain lookups are tested.
omap4_idle_init_timer_first ==
    /\ init_ret = <<>>
    /\ UNCHANGED <<done_reads, set_err, saw, quorums, envVars, pc, index, requested, ret, cpu_done,
                   abort_barrier, mpu_state_vote, mpu_lock, mpu_next, fpwrst, trace,
                   mpu_log, calls>>
    /\ IF ~lookup["mpu_pwrdm"] \/ ~lookup["cpu0_pwrdm"] \/ ~lookup["cpu1_pwrdm"]
       THEN /\ init_ret' = <<-ENODEV>>
            /\ UNCHANGED <<done_reads, state_ptr, driver, bc_on>>
       ELSE /\ bc_on' = online
            /\ IF ~lookup["mpu0_clkdm"] \/ ~lookup["mpu1_clkdm"]
               THEN /\ init_ret' = <<-ENODEV>>
                    /\ UNCHANGED <<done_reads, state_ptr, driver>>
               ELSE IF soc = "omap44xx"
               THEN /\ state_ptr' = "omap4_idle_data"
                    /\ driver' = "omap4_idle"
                    /\ init_ret' = <<0>>
               ELSE IF soc = "omap54xx"
               THEN /\ state_ptr' = "omap5_idle_data"
                    /\ driver' = "omap5_idle"
                    /\ init_ret' = <<0>>
               ELSE /\ init_ret' = <<-ENODEV>>
                    /\ UNCHANGED <<done_reads, state_ptr, driver>>

omap4_idle_init ==
    /\ init_ret = <<>>
    /\ UNCHANGED <<done_reads, set_err, saw, quorums, envVars, pc, index, requested, ret, cpu_done, abort_barrier,
                   mpu_state_vote, mpu_lock, mpu_next, fpwrst, trace, mpu_log, calls>>
    /\ IF ~lookup["mpu_pwrdm"] \/ ~lookup["cpu0_pwrdm"] \/ ~lookup["cpu1_pwrdm"]
       THEN /\ init_ret' = <<-ENODEV>>
            /\ UNCHANGED <<done_reads, state_ptr, driver, bc_on>>
       ELSE IF ~lookup["mpu0_clkdm"] \/ ~lookup["mpu1_clkdm"]
       THEN /\ init_ret' = <<-ENODEV>>
            /\ UNCHANGED <<done_reads, state_ptr, driver, bc_on>>
       ELSE /\ bc_on' = online
            /\ IF soc = "omap44xx"
               THEN /\ state_ptr' = "omap4_idle_data"
                    /\ driver' = "omap4_idle"
                    /\ init_ret' = <<0>>
               ELSE IF soc = "omap54xx"
               THEN /\ state_ptr' = "omap5_idle_data"
                    /\ driver' = "omap5_idle"
                    /\ init_ret' = <<0>>
               ELSE /\ init_ret' = <<-ENODEV>>
                    /\ UNCHANGED <<done_reads, state_ptr, driver>>

(* ------------------------------------------------- cpuidle framework *)

Goto(c, l) == pc' = [pc EXCEPT ![c] = l]

\* First statement of each entry callback.
FirstLabel(fn) ==
    CASE fn = "simple"  -> "i_wfi"
      [] fn = "smp"     -> "s_bc_enter"
      [] fn = "coupled" -> "c_start"

\* The framework invokes drv->states[i].enter(dev, drv, i) on one CPU, for a
\* state that is not flagged CPUIDLE_FLAG_COUPLED.
cpuidle_enter_state(c, i) ==
    /\ driver # "none"
    /\ c \in online
    /\ pc[c] = "idle"
    /\ calls < MaxCalls
    /\ EnterFn(i) \in {"simple", "smp"}
    /\ Goto(c, FirstLabel(EnterFn(i)))
    /\ index' = [index EXCEPT ![c] = i]
    /\ requested' = [requested EXCEPT ![c] = i]
    /\ ret' = [ret EXCEPT ![c] = <<>>]
    /\ trace' = [trace EXCEPT ![c] = <<>>]
    /\ calls' = calls + 1
    /\ set_err' = [set_err EXCEPT ![c] = FALSE]
    /\ UNCHANGED <<done_reads, saw, quorums, envVars, initVars, cpu_done, abort_barrier, mpu_state_vote,
                   mpu_lock, mpu_next, fpwrst, mpu_log>>

\* A state flagged CPUIDLE_FLAG_COUPLED is entered by all online CPUs together:
\* the framework holds each CPU back until every online CPU has asked for a
\* coupled state, then invokes the callback on all of them with one index.
cpuidle_enter_state_coupled(i) ==
    /\ driver # "none"
    /\ \A c \in online : pc[c] = "idle"
    /\ calls + Cardinality(online) <= MaxCalls
    /\ EnterFn(i) = "coupled"
    /\ pc' = [c \in CPUS |-> IF c \in online THEN FirstLabel("coupled") ELSE pc[c]]
    /\ index' = [c \in CPUS |-> IF c \in online THEN i ELSE index[c]]
    /\ requested' = [c \in CPUS |-> IF c \in online THEN i ELSE requested[c]]
    /\ ret' = [c \in CPUS |-> IF c \in online THEN <<>> ELSE ret[c]]
    /\ trace' = [c \in CPUS |-> IF c \in online THEN <<>> ELSE trace[c]]
    /\ calls' = calls + Cardinality(online)
    /\ saw' = "none"
    /\ set_err' = [c \in CPUS |-> IF c \in online THEN FALSE ELSE set_err[c]]
    /\ UNCHANGED <<done_reads, quorums, envVars, initVars, cpu_done, abort_barrier, mpu_state_vote,
                   mpu_lock, mpu_next, fpwrst, mpu_log>>

(* ------------------------------------------------ hardware: wake-up *)

SleepLabels == {"i_sleep", "s_sleep", "c_sleep"}

AfterSleep(l) ==
    CASE l = "i_sleep" -> "i_ret"
      [] l = "s_sleep" -> "s_lock2"
      [] l = "c_sleep" -> "c_set_done"

\* An interrupt wakes a sleeping CPU: its power domain is ON again and the
\* low-power call returns.
Wakeup(c) ==
    /\ pc[c] \in SleepLabels
    /\ Goto(c, AfterSleep(pc[c]))
    /\ fpwrst' = [fpwrst EXCEPT ![c] = "ON"]
    /\ UNCHANGED <<done_reads, set_err, saw, quorums, envVars, initVars, index, requested, ret, cpu_done, abort_barrier,
                   mpu_state_vote, mpu_lock, mpu_next, trace, mpu_log, calls>>

(* ------------------------------------------- omap_enter_idle_simple *)

\* Faulty variant of omap_do_wfi: the broadcast-enter notification is sent
\* before the wait for interrupt.
omap_do_wfi_notifies(c) ==
    /\ pc[c] = "i_wfi"
    /\ Goto(c, "i_sleep")
    /\ trace' = Log(c, "bc_enter")
    /\ UNCHANGED <<done_reads, set_err, saw, quorums, envVars, initVars, index, requested, ret, cpu_done, abort_barrier,
                   mpu_state_vote, mpu_lock, mpu_next, fpwrst, mpu_log, calls>>

\* omap_do_wfi()
omap_do_wfi(c) ==
    /\ pc[c] = "i_wfi"
    /\ Goto(c, "i_sleep")
    /\ UNCHANGED <<done_reads, set_err, saw, quorums, envVars, initVars, index, requested, ret, cpu_done, abort_barrier,
                   mpu_state_vote, mpu_lock, mpu_next, fpwrst, trace, mpu_log, calls>>

\* return index;
simple_return(c) ==
    /\ pc[c] = "i_ret"
    /\ Goto(c, "idle")
    /\ ret' = [ret EXCEPT ![c] = <<index[c]>>]
    /\ UNCHANGED <<done_reads, set_err, saw, quorums, envVars, initVars, index, requested, cpu_done, abort_barrier,
                   mpu_state_vote, mpu_lock, mpu_next, fpwrst, trace, mpu_log, calls>>

(* ---------------------------------------------- omap_enter_idle_smp *)

\* Faulty variant of VoteIsQuorum: any vote at all counts as a quorum.
VoteIsQuorum_AnyVote(i) == mpu_state_vote[i] >= 1

\* cx->mpu_state_vote == num_online_cpus()
VoteIsQuorum(i) == mpu_state_vote[i] = num_online_cpus

\* clockevents_notify(CLOCK_EVT_NOTIFY_BROADCAST_ENTER, &cpu_id)
smp_broadcast_enter(c) ==
    /\ pc[c] = "s_bc_enter"
    /\ Goto(c, "s_lock1")
    /\ trace' = Log(c, "bc_enter")
    /\ UNCHANGED <<done_reads, set_err, saw, quorums, envVars, initVars, index, requested, ret, cpu_done, abort_barrier,
                   mpu_state_vote, mpu_lock, mpu_next, fpwrst, mpu_log, calls>>

\* raw_spin_lock_irqsave(&mpu_lock, flag), both occurrences
smp_lock(c) ==
    /\ pc[c] \in {"s_lock1", "s_lock2"}
    /\ mpu_lock = {}
    /\ mpu_lock' = {c}
    /\ Goto(c, IF pc[c] = "s_lock1" THEN "s_inc" ELSE "s_chk2")
    /\ UNCHANGED <<done_reads, set_err, saw, quorums, envVars, initVars, index, requested, ret, cpu_done, abort_barrier,
                   mpu_state_vote, mpu_next, fpwrst, trace, mpu_log, calls>>

\* cx->mpu_state_vote++
smp_vote_inc(c) ==
    /\ pc[c] = "s_inc"
    /\ mpu_state_vote' = [mpu_state_vote EXCEPT ![index[c]] = @ + 1]
    /\ quorums' = IF mpu_state_vote[index[c]] + 1 = Cardinality(online) THEN quorums + 1 ELSE quorums
    /\ Goto(c, "s_chk1")
    /\ UNCHANGED <<done_reads, set_err, saw, envVars, initVars, index, requested, ret, cpu_done, abort_barrier,
                   mpu_lock, mpu_next, fpwrst, trace, mpu_log, calls>>

\* if (cx->mpu_state_vote == num_online_cpus())
\*         pwrdm_set_next_fpwrst(mpu_pd, cx->mpu_pwrst);
smp_set_low(c) ==
    /\ pc[c] = "s_chk1"
    /\ Goto(c, "s_unlock1")
    /\ IF VoteIsQuorum(index[c])
       THEN /\ mpu_next' = cx(index[c]).mpu_pwrst
            /\ mpu_log' = Append(mpu_log, MpuCmd(c, "smp", cx(index[c]).mpu_pwrst))
            /\ SetResult(c)
       ELSE UNCHANGED <<done_reads, mpu_next, mpu_log, set_err>>
    /\ UNCHANGED <<done_reads, saw, quorums, envVars, initVars, index, requested, ret, cpu_done, abort_barrier,
                   mpu_state_vote, mpu_lock, fpwrst, trace, calls>>

\* Faulty variant of smp_unlock: the first unlock is missing, the CPU enters
\* low power with mpu_lock held.
smp_unlock_second_only(c) ==
    /\ pc[c] \in {"s_unlock1", "s_unlock2"}
    /\ mpu_lock' = IF pc[c] = "s_unlock1" THEN mpu_lock ELSE mpu_lock \ {c}
    /\ Goto(c, IF pc[c] = "s_unlock1" THEN "s_lowpower" ELSE "s_bc_exit")
    /\ UNCHANGED <<done_reads, set_err, saw, quorums, envVars, initVars, index, requested, ret, cpu_done,
                   abort_barrier, mpu_state_vote, mpu_next, fpwrst, trace, mpu_log, calls>>

\* raw_spin_unlock_irqrestore(&mpu_lock, flag), both occurrences
smp_unlock(c) ==
    /\ pc[c] \in {"s_unlock1", "s_unlock2"}
    /\ mpu_lock' = mpu_lock \ {c}
    /\ Goto(c, IF pc[c] = "s_unlock1" THEN "s_lowpower" ELSE "s_bc_exit")
    /\ UNCHANGED <<done_reads, set_err, saw, quorums, envVars, initVars, index, requested, ret, cpu_done, abort_barrier,
                   mpu_state_vote, mpu_next, fpwrst, trace, mpu_log, calls>>

\* omap4_enter_lowpower(dev->cpu, cx->cpu_state): the CPU either reaches the
\* low-power state and sleeps until an interrupt, or the attempt returns at once.
smp_enter_lowpower(c) ==
    /\ pc[c] = "s_lowpower"
    /\ trace' = Log(c, "lowpower")
    /\ \/ /\ Goto(c, "s_sleep")
          /\ fpwrst' = [fpwrst EXCEPT ![c] = cx(index[c]).cpu_pwrst]
       \/ /\ Goto(c, "s_lock2")
          /\ UNCHANGED fpwrst
    /\ UNCHANGED <<done_reads, set_err, saw, quorums, envVars, initVars, index, requested, ret, cpu_done, abort_barrier,
                   mpu_state_vote, mpu_lock, mpu_next, mpu_log, calls>>

\* Faulty variant of smp_set_on: the counter is compared as if the decrement
\* had come before the test.
smp_set_on_after_dec(c) ==
    /\ pc[c] = "s_chk2"
    /\ Goto(c, "s_dec")
    /\ IF mpu_state_vote[index[c]] - 1 = num_online_cpus
       THEN /\ mpu_next' = "ON"
            /\ mpu_log' = Append(mpu_log, MpuCmd(c, "smp", "ON"))
            /\ SetResult(c)
       ELSE UNCHANGED <<done_reads, mpu_next, mpu_log, set_err>>
    /\ UNCHANGED <<done_reads, saw, quorums, envVars, initVars, index, requested, ret, cpu_done,
                   abort_barrier, mpu_state_vote, mpu_lock, fpwrst, trace, calls>>

\* Faulty variant of smp_set_on: every exiting CPU restores the domain.
smp_set_on_always(c) ==
    /\ pc[c] = "s_chk2"
    /\ Goto(c, "s_dec")
    /\ mpu_next' = "ON"
    /\ mpu_log' = Append(mpu_log, MpuCmd(c, "smp", "ON"))
    /\ SetResult(c)
    /\ UNCHANGED <<done_reads, saw, quorums, envVars, initVars, index, requested, ret, cpu_done,
                   abort_barrier, mpu_state_vote, mpu_lock, fpwrst, trace, calls>>

\* if (cx->mpu_state_vote == num_online_cpus())
\*         pwrdm_set_next_fpwrst(mpu_pd, PWRDM_FUNC_PWRST_ON);
smp_set_on(c) ==
    /\ pc[c] = "s_chk2"
    /\ Goto(c, "s_dec")
    /\ IF VoteIsQuorum(index[c])
       THEN /\ mpu_next' = "ON"
            /\ mpu_log' = Append(mpu_log, MpuCmd(c, "smp", "ON"))
            /\ SetResult(c)
       ELSE UNCHANGED <<done_reads, mpu_next, mpu_log, set_err>>
    /\ UNCHANGED <<done_reads, saw, quorums, envVars, initVars, index, requested, ret, cpu_done, abort_barrier,
                   mpu_state_vote, mpu_lock, fpwrst, trace, calls>>

\* Faulty variant of smp_vote_dec: the decrement is under the quorum test, so
\* only a CPU that saw the full quorum takes its vote back.
smp_vote_dec_in_if(c) ==
    /\ pc[c] = "s_dec"
    /\ mpu_state_vote' = IF mpu_state_vote[index[c]] = Cardinality(online)
                         THEN [mpu_state_vote EXCEPT ![index[c]] = @ - 1]
                         ELSE mpu_state_vote
    /\ Goto(c, "s_unlock2")
    /\ UNCHANGED <<done_reads, set_err, saw, quorums, envVars, initVars, index, requested, ret, cpu_done,
                   abort_barrier, mpu_lock, mpu_next, fpwrst, trace, mpu_log, calls>>

\* cx->mpu_state_vote--
smp_vote_dec(c) ==
    /\ pc[c] = "s_dec"
    /\ mpu_state_vote' = [mpu_state_vote EXCEPT ![index[c]] = @ - 1]
    /\ Goto(c, "s_unlock2")
    /\ UNCHANGED <<done_reads, set_err, saw, quorums, envVars, initVars, index, requested, ret, cpu_done, abort_barrier,
                   mpu_lock, mpu_next, fpwrst, trace, mpu_log, calls>>

\* clockevents_notify(CLOCK_EVT_NOTIFY_BROADCAST_EXIT, &cpu_id)
smp_broadcast_exit(c) ==
    /\ pc[c] = "s_bc_exit"
    /\ Goto(c, "s_ret")
    /\ trace' = Log(c, "bc_exit")
    /\ UNCHANGED <<done_reads, set_err, saw, quorums, envVars, initVars, index, requested, ret, cpu_done, abort_barrier,
                   mpu_state_vote, mpu_lock, mpu_next, fpwrst, mpu_log, calls>>

\* return index;
smp_return(c) ==
    /\ pc[c] = "s_ret"
    /\ Goto(c, "idle")
    /\ ret' = [ret EXCEPT ![c] = <<index[c]>>]
    /\ UNCHANGED <<done_reads, set_err, saw, quorums, envVars, initVars, index, requested, cpu_done, abort_barrier,
                   mpu_state_vote, mpu_lock, mpu_next, fpwrst, trace, mpu_log, calls>>

(* ------------------------------------------ omap_enter_idle_coupled *)

\* dev->cpu == 0 && cpumask_test_cpu(1, cpu_online_mask)
LeaderWithFollower(c) == c = 0 /\ 1 \in online

\* Unchanged by every step of the coupled callback that only moves the CPU on
\* and records the call it made.
coupledFrame == <<envVars, initVars, index, requested, ret, cpu_done, abort_barrier,
                  mpu_state_vote, mpu_lock, mpu_next, fpwrst, mpu_log, calls, quorums, set_err,
                  done_reads>>

\* The same for the one statement that reads a completion flag.
checkFrame == <<envVars, initVars, index, requested, ret, cpu_done, abort_barrier,
                mpu_state_vote, mpu_lock, mpu_next, fpwrst, mpu_log, calls, quorums, set_err>>

\* Faulty variant of coupled_start: the dev->cpu == 0 test is missing, so CPU1
\* too waits in the loop.
coupled_start_any_cpu(c) ==
    /\ pc[c] = "c_start"
    /\ Goto(c, IF 1 \in online THEN "c_poll" ELSE "c_bc_enter")
    /\ UNCHANGED <<coupledFrame, trace, saw>>

\* if (dev->cpu == 0 && cpumask_test_cpu(1, cpu_online_mask))
coupled_start(c) ==
    /\ pc[c] = "c_start"
    /\ Goto(c, IF LeaderWithFollower(c) THEN "c_poll" ELSE "c_bc_enter")
    /\ UNCHANGED <<coupledFrame, trace, saw>>

\* Faulty variant of coupled_poll: the loop gives up waiting, leaving without
\* having read OFF.
coupled_poll_timeout(c) ==
    /\ pc[c] = "c_poll"
    /\ \/ Goto(c, IF fpwrst[1] # "OFF" THEN "c_chk_done" ELSE "c_bc_enter")
       \/ Goto(c, "c_bc_enter")
    /\ saw' = IF fpwrst[1] # "OFF" THEN saw ELSE "off"
    /\ UNCHANGED <<coupledFrame, trace>>

\* while (pwrdm_read_fpwrst(cpu_pd[1]) != PWRDM_FUNC_PWRST_OFF)
coupled_poll(c) ==
    /\ pc[c] = "c_poll"
    /\ Goto(c, IF fpwrst[1] # "OFF" THEN "c_chk_done" ELSE "c_bc_enter")
    /\ saw' = IF fpwrst[1] # "OFF" THEN saw ELSE "off"
    /\ UNCHANGED <<coupledFrame, trace>>

\* Faulty variant of coupled_check_done: the loop is left with break instead of
\* goto fail, so the full sequence follows.
coupled_check_done_break(c) ==
    /\ pc[c] = "c_chk_done"
    /\ Goto(c, IF cpu_done[1] THEN "c_bc_enter" ELSE "c_poll")
    /\ saw' = IF cpu_done[1] THEN "done" ELSE saw
    /\ ReadFlag(c, 1)
    /\ UNCHANGED <<checkFrame, trace>>

\* Faulty variant of coupled_check_done: the completion flag is not tested.
coupled_check_done_ignore(c) ==
    /\ pc[c] = "c_chk_done"
    /\ Goto(c, "c_poll")
    /\ UNCHANGED <<coupledFrame, trace, saw>>

\* Faulty variant of coupled_check_done: the fail: label sits after the barrier
\* call, so the abort path does not rendezvous.
coupled_check_done_past_barrier(c) ==
    /\ pc[c] = "c_chk_done"
    /\ Goto(c, IF cpu_done[1] THEN "c_clear_done" ELSE "c_poll")
    /\ saw' = IF cpu_done[1] THEN "done" ELSE saw
    /\ ReadFlag(c, 1)
    /\ UNCHANGED <<checkFrame, trace>>

\* Faulty variant of coupled_check_done: the fail: label sits before the
\* cpu_pm_exit call, so the abort path runs the exit notifications.
coupled_check_done_fail_at_exit(c) ==
    /\ pc[c] = "c_chk_done"
    /\ Goto(c, IF cpu_done[1] THEN "c_pm_exit" ELSE "c_poll")
    /\ saw' = IF cpu_done[1] THEN "done" ELSE saw
    /\ ReadFlag(c, 1)
    /\ UNCHANGED <<checkFrame, trace>>

\* Faulty variant of coupled_check_done: the test is of cpu_done[dev->cpu], the
\* CPU's own flag.
coupled_check_done_own_flag(c) ==
    /\ pc[c] = "c_chk_done"
    /\ Goto(c, IF cpu_done[c] THEN "c_barrier" ELSE "c_poll")
    /\ saw' = IF cpu_done[c] THEN "done" ELSE saw
    /\ ReadFlag(c, c)
    /\ UNCHANGED <<checkFrame, trace>>

\* cpu_relax(); if (cpu_done[1]) goto fail;
coupled_check_done(c) ==
    /\ pc[c] = "c_chk_done"
    /\ Goto(c, IF cpu_done[1] THEN "c_barrier" ELSE "c_poll")
    /\ saw' = IF cpu_done[1] THEN "done" ELSE saw
    /\ ReadFlag(c, 1)
    /\ UNCHANGED <<checkFrame, trace>>

\* clockevents_notify(CLOCK_EVT_NOTIFY_BROADCAST_ENTER, &cpu_id)
coupled_broadcast_enter(c) ==
    /\ pc[c] = "c_bc_enter"
    /\ Goto(c, "c_pm_enter")
    /\ trace' = Log(c, "bc_enter")
    /\ UNCHANGED <<coupledFrame, saw>>

\* Faulty variant of coupled_cpu_pm_enter: the dev->cpu == 0 test is missing.
coupled_cpu_pm_enter_unguarded(c) ==
    /\ pc[c] = "c_pm_enter"
    /\ Goto(c, "c_mpu_set")
    /\ trace' = Log(c, "cpu_pm_enter")
    /\ UNCHANGED <<coupledFrame, saw>>

\* cpu_pm_enter(); if (dev->cpu == 0) ...
coupled_cpu_pm_enter(c) ==
    /\ pc[c] = "c_pm_enter"
    /\ Goto(c, IF c = 0 THEN "c_mpu_set" ELSE "c_lowpower")
    /\ trace' = Log(c, "cpu_pm_enter")
    /\ UNCHANGED <<coupledFrame, saw>>

\* Faulty variant of coupled_set_mpu: the cluster PM enter chain is not called.
coupled_set_mpu_skips_cluster(c) ==
    /\ pc[c] = "c_mpu_set"
    /\ Goto(c, "c_lowpower")
    /\ mpu_next' = cx(index[c]).mpu_pwrst
    /\ mpu_log' = Append(mpu_log, MpuCmd(c, "coupled", cx(index[c]).mpu_pwrst))
    /\ trace' = Log(c, "mpu_set")
    /\ SetResult(c)
    /\ UNCHANGED <<done_reads, saw, quorums, envVars, initVars, index, requested, ret, cpu_done,
                   abort_barrier, mpu_state_vote, mpu_lock, fpwrst, calls>>

\* Faulty variant of coupled_set_mpu: an error of pwrdm_set_fpwrst sends the
\* CPU to fail: instead of being warned about and ignored.
coupled_set_mpu_bail(c) ==
    /\ pc[c] = "c_mpu_set"
    /\ mpu_next' = cx(index[c]).mpu_pwrst
    /\ mpu_log' = Append(mpu_log, MpuCmd(c, "coupled", cx(index[c]).mpu_pwrst))
    /\ trace' = Log(c, "mpu_set")
    /\ \E ok \in BOOLEAN :
          /\ set_err' = [set_err EXCEPT ![c] = @ \/ ~ok]
          /\ Goto(c, IF ~ok THEN "c_barrier"
                     ELSE IF cx(index[c]).mpu_pwrst = "OSWR" THEN "c_cluster_enter"
                     ELSE "c_lowpower")
    /\ UNCHANGED <<done_reads, saw, quorums, envVars, initVars, index, requested, ret, cpu_done,
                   abort_barrier, mpu_state_vote, mpu_lock, fpwrst, calls>>

\* WARN_ON(pwrdm_set_fpwrst(mpu_pd, cx->mpu_pwrst)): an error is warned about
\* and otherwise ignored.
\* if (cx->mpu_pwrst == PWRDM_FUNC_PWRST_OSWR) ...
coupled_set_mpu(c) ==
    /\ pc[c] = "c_mpu_set"
    /\ Goto(c, IF cx(index[c]).mpu_pwrst = "OSWR" THEN "c_cluster_enter" ELSE "c_lowpower")
    /\ mpu_next' = cx(index[c]).mpu_pwrst
    /\ mpu_log' = Append(mpu_log, MpuCmd(c, "coupled", cx(index[c]).mpu_pwrst))
    /\ trace' = Log(c, "mpu_set")
    /\ SetResult(c)
    /\ UNCHANGED <<done_reads, saw, quorums, envVars, initVars, index, requested, ret, cpu_done, abort_barrier,
                   mpu_state_vote, mpu_lock, fpwrst, calls>>

\* cpu_cluster_pm_enter()
coupled_cluster_pm_enter(c) ==
    /\ pc[c] = "c_cluster_enter"
    /\ Goto(c, "c_lowpower")
    /\ trace' = Log(c, "cpu_cluster_pm_enter")
    /\ UNCHANGED <<coupledFrame, saw>>

\* omap4_mpuss_enter_lowpower(dev->cpu, cx->cpu_pwrst): the CPU's power domain
\* reaches cx->cpu_pwrst and the CPU sleeps until it is woken, or the attempt
\* fails and the call returns with the domain still ON.
coupled_enter_lowpower(c) ==
    /\ pc[c] = "c_lowpower"
    /\ trace' = Log(c, "lowpower")
    /\ \/ /\ Goto(c, "c_sleep")
          /\ fpwrst' = [fpwrst EXCEPT ![c] = cx(index[c]).cpu_pwrst]
       \/ /\ Goto(c, "c_set_done")
          /\ UNCHANGED fpwrst
    /\ UNCHANGED <<done_reads, set_err, saw, quorums, envVars, initVars, index, requested, ret, cpu_done, abort_barrier,
                   mpu_state_vote, mpu_lock, mpu_next, mpu_log, calls>>

\* Faulty variant of coupled_set_done: the cpumask_test_cpu(1, cpu_online_mask)
\* test is missing, CPU0 wakes CPU1 whether it is online or not.
coupled_set_done_any_leader(c) ==
    /\ pc[c] = "c_set_done"
    /\ cpu_done' = [cpu_done EXCEPT ![c] = TRUE]
    /\ Goto(c, IF c = 0 THEN "c_mpu_restore" ELSE "c_pm_exit")
    /\ trace' = Log(c, "set_done")
    /\ UNCHANGED <<done_reads, set_err, saw, quorums, envVars, initVars, index, requested, ret, abort_barrier,
                   mpu_state_vote, mpu_lock, mpu_next, fpwrst, mpu_log, calls>>

\* Faulty variant of coupled_set_done: only CPU0 sets its completion flag.
coupled_set_done_leader_only(c) ==
    /\ pc[c] = "c_set_done"
    /\ cpu_done' = [cpu_done EXCEPT ![c] = (c = 0)]
    /\ Goto(c, IF LeaderWithFollower(c) THEN "c_mpu_restore" ELSE "c_pm_exit")
    /\ trace' = Log(c, "set_done")
    /\ UNCHANGED <<done_reads, set_err, saw, quorums, envVars, initVars, index, requested, ret, abort_barrier,
                   mpu_state_vote, mpu_lock, mpu_next, fpwrst, mpu_log, calls>>

\* Faulty variant of coupled_set_done: the leader's restore block is not
\* entered, cpu_pm_exit follows the flag directly.
coupled_set_done_then_pm_exit(c) ==
    /\ pc[c] = "c_set_done"
    /\ cpu_done' = [cpu_done EXCEPT ![c] = TRUE]
    /\ Goto(c, "c_pm_exit")
    /\ trace' = Log(c, "set_done")
    /\ UNCHANGED <<done_reads, set_err, saw, quorums, envVars, initVars, index, requested, ret, abort_barrier,
                   mpu_state_vote, mpu_lock, mpu_next, fpwrst, mpu_log, calls>>

\* Faulty variant of coupled_set_done: the leader goes on to waking CPU1
\* without first restoring the MPU domain.
coupled_set_done_skip_restore(c) ==
    /\ pc[c] = "c_set_done"
    /\ cpu_done' = [cpu_done EXCEPT ![c] = TRUE]
    /\ Goto(c, IF LeaderWithFollower(c) THEN "c_clkdm_wakeup" ELSE "c_pm_exit")
    /\ trace' = Log(c, "set_done")
    /\ UNCHANGED <<done_reads, set_err, saw, quorums, envVars, initVars, index, requested, ret, abort_barrier,
                   mpu_state_vote, mpu_lock, mpu_next, fpwrst, mpu_log, calls>>

\* cpu_done[dev->cpu] = true;
\* if (dev->cpu == 0 && cpumask_test_cpu(1, cpu_online_mask)) ...
coupled_set_done(c) ==
    /\ pc[c] = "c_set_done"
    /\ cpu_done' = [cpu_done EXCEPT ![c] = TRUE]
    /\ Goto(c, IF LeaderWithFollower(c) THEN "c_mpu_restore" ELSE "c_pm_exit")
    /\ trace' = Log(c, "set_done")
    /\ UNCHANGED <<done_reads, set_err, saw, quorums, envVars, initVars, index, requested, ret, abort_barrier,
                   mpu_state_vote, mpu_lock, mpu_next, fpwrst, mpu_log, calls>>

\* pwrdm_set_next_fpwrst(mpu_pd, PWRDM_FUNC_PWRST_ON)
coupled_restore_mpu(c) ==
    /\ pc[c] = "c_mpu_restore"
    /\ Goto(c, "c_clkdm_wakeup")
    /\ mpu_next' = "ON"
    /\ mpu_log' = Append(mpu_log, MpuCmd(c, "coupled", "ON"))
    /\ trace' = Log(c, "mpu_restore")
    /\ SetResult(c)
    /\ UNCHANGED <<done_reads, saw, quorums, envVars, initVars, index, requested, ret, cpu_done, abort_barrier,
                   mpu_state_vote, mpu_lock, fpwrst, calls>>

\* clkdm_wakeup(cpu_clkdm[1]).  The wake-up of CPU1 that it causes is the
\* hardware's step, Wakeup(1).
coupled_clkdm_wakeup(c) ==
    /\ pc[c] = "c_clkdm_wakeup"
    /\ Goto(c, "c_cpu1_on")
    /\ trace' = Log(c, "clkdm_wakeup")
    /\ UNCHANGED <<coupledFrame, saw>>

\* pwrdm_set_next_fpwrst(cpu_pd[1], PWRDM_FUNC_PWRST_ON)
coupled_cpu1_on(c) ==
    /\ pc[c] = "c_cpu1_on"
    /\ Goto(c, "c_allow_idle")
    /\ trace' = Log(c, "cpu1_set_on")
    /\ SetResult(c)
    /\ UNCHANGED <<done_reads, saw, quorums, envVars, initVars, index, requested, ret, cpu_done, abort_barrier,
                   mpu_state_vote, mpu_lock, mpu_next, fpwrst, mpu_log, calls>>

\* clkdm_allow_idle(cpu_clkdm[1])
coupled_clkdm_allow_idle(c) ==
    /\ pc[c] = "c_allow_idle"
    /\ Goto(c, "c_pm_exit")
    /\ trace' = Log(c, "clkdm_allow_idle")
    /\ UNCHANGED <<coupledFrame, saw>>

\* cpu_pm_exit(); if (cx->mpu_pwrst == PWRDM_FUNC_PWRST_OSWR) ...
coupled_cpu_pm_exit(c) ==
    /\ pc[c] = "c_pm_exit"
    /\ Goto(c, IF cx(index[c]).mpu_pwrst = "OSWR" THEN "c_cluster_exit" ELSE "c_bc_exit")
    /\ trace' = Log(c, "cpu_pm_exit")
    /\ UNCHANGED <<coupledFrame, saw>>

\* cpu_cluster_pm_exit()
coupled_cluster_pm_exit(c) ==
    /\ pc[c] = "c_cluster_exit"
    /\ Goto(c, "c_bc_exit")
    /\ trace' = Log(c, "cpu_cluster_pm_exit")
    /\ UNCHANGED <<coupledFrame, saw>>

\* Faulty variant of coupled_broadcast_exit: the full sequence ends past the
\* barrier call instead of falling into fail:.
coupled_broadcast_exit_skip(c) ==
    /\ pc[c] = "c_bc_exit"
    /\ Goto(c, "c_clear_done")
    /\ trace' = Log(c, "bc_exit")
    /\ UNCHANGED <<coupledFrame, saw>>

\* Faulty variant of coupled_broadcast_exit: cpu_done[dev->cpu] = false is
\* executed before the barrier call instead of after it.
coupled_broadcast_exit_clears(c) ==
    /\ pc[c] = "c_bc_exit"
    /\ Goto(c, "c_barrier")
    /\ trace' = Log(c, "bc_exit")
    /\ cpu_done' = [cpu_done EXCEPT ![c] = FALSE]
    /\ UNCHANGED <<done_reads, set_err, saw, quorums, envVars, initVars, index, requested, ret,
                   abort_barrier, mpu_state_vote, mpu_lock, mpu_next, fpwrst, mpu_log, calls>>

\* clockevents_notify(CLOCK_EVT_NOTIFY_BROADCAST_EXIT, &cpu_id); falls into fail:
coupled_broadcast_exit(c) ==
    /\ pc[c] = "c_bc_exit"
    /\ Goto(c, "c_barrier")
    /\ trace' = Log(c, "bc_exit")
    /\ UNCHANGED <<coupledFrame, saw>>

(* ---- fail: cpuidle_coupled_parallel_barrier(dev, &abort_barrier) ---- *)

\* The number of participants the barrier waits for.
online_count == Cardinality(online)

\* The call: the CPU increments the shared counter on entry to the barrier.
barrier_arrive(c) ==
    /\ pc[c] = "c_barrier"
    /\ abort_barrier' = abort_barrier + 1
    /\ Goto(c, "c_bar_wait")
    /\ trace' = Log(c, "barrier")
    /\ UNCHANGED <<done_reads, set_err, saw, quorums, envVars, initVars, index, requested, ret, cpu_done,
                   mpu_state_vote, mpu_lock, mpu_next, fpwrst, mpu_log, calls>>

\* It spins until it observes that every participant has reached the barrier.
barrier_wait(c) ==
    /\ pc[c] = "c_bar_wait"
    /\ abort_barrier >= online_count
    /\ Goto(c, "c_bar_leave")
    /\ UNCHANGED <<coupledFrame, trace, saw>>

\* Leaving: the counter is incremented again; the last CPU to leave resets it
\* for the next episode, the others wait for the reset.
barrier_leave(c) ==
    /\ pc[c] = "c_bar_leave"
    /\ IF abort_barrier + 1 = 2 * online_count
       THEN /\ abort_barrier' = 0
            /\ Goto(c, "c_clear_done")
       ELSE /\ abort_barrier' = abort_barrier + 1
            /\ Goto(c, "c_bar_reset")
    /\ UNCHANGED <<done_reads, set_err, saw, quorums, envVars, initVars, index, requested, ret, cpu_done,
                   mpu_state_vote, mpu_lock, mpu_next, fpwrst, trace, mpu_log, calls>>

barrier_wait_reset(c) ==
    /\ pc[c] = "c_bar_reset"
    /\ abort_barrier <= online_count
    /\ Goto(c, "c_clear_done")
    /\ UNCHANGED <<coupledFrame, trace, saw>>

\* Faulty variant of coupled_clear_done: only CPU0 clears its completion flag.
coupled_clear_done_leader_only(c) ==
    /\ pc[c] = "c_clear_done"
    /\ cpu_done' = [cpu_done EXCEPT ![c] = IF c = 0 THEN FALSE ELSE @]
    /\ Goto(c, "c_ret")
    /\ trace' = Log(c, "clear_done")
    /\ UNCHANGED <<done_reads, set_err, saw, quorums, envVars, initVars, index, requested, ret, abort_barrier,
                   mpu_state_vote, mpu_lock, mpu_next, fpwrst, mpu_log, calls>>

\* cpu_done[dev->cpu] = false;
coupled_clear_done(c) ==
    /\ pc[c] = "c_clear_done"
    /\ cpu_done' = [cpu_done EXCEPT ![c] = FALSE]
    /\ Goto(c, "c_ret")
    /\ trace' = Log(c, "clear_done")
    /\ UNCHANGED <<done_reads, set_err, saw, quorums, envVars, initVars, index, requested, ret, abort_barrier,
                   mpu_state_vote, mpu_lock, mpu_next, fpwrst, mpu_log, calls>>

\* Faulty variant of coupled_return: a CPU that never entered low power
\* reports the safe state (safe_state_index) instead of the index it was given.
coupled_return_safe_state(c) ==
    /\ pc[c] = "c_ret"
    /\ Goto(c, "idle")
    /\ ret' = [ret EXCEPT ![c] = IF "lowpower" \in {trace[c][k] : k \in 1 .. Len(trace[c])}
                                 THEN <<index[c]>> ELSE <<0>>]
    /\ UNCHANGED <<done_reads, set_err, saw, quorums, envVars, initVars, index, requested, cpu_done, abort_barrier,
                   mpu_state_vote, mpu_lock, mpu_next, fpwrst, trace, mpu_log, calls>>

\* return index;
coupled_return(c) ==
    /\ pc[c] = "c_ret"
    /\ Goto(c, "idle")
    /\ ret' = [ret EXCEPT ![c] = <<index[c]>>]
    /\ UNCHANGED <<done_reads, set_err, saw, quorums, envVars, initVars, index, requested, cpu_done, abort_barrier,
                   mpu_state_vote, mpu_lock, mpu_next, fpwrst, trace, mpu_log, calls>>

(* ---------------------------------------------------------------- Next *)

Next ==
    \/ omap4_idle_init
    \/ \E c \in CPUS, i \in StateIdx : cpuidle_enter_state(c, i)
    \/ \E i \in StateIdx : cpuidle_enter_state_coupled(i)
    \/ \E c \in CPUS : Wakeup(c)
    \/ \E c \in CPUS : omap_do_wfi(c)
    \/ \E c \in CPUS : simple_return(c)
    \/ \E c \in CPUS : smp_broadcast_enter(c)
    \/ \E c \in CPUS : smp_lock(c)
    \/ \E c \in CPUS : smp_vote_inc(c)
    \/ \E c \in CPUS : smp_set_low(c)
    \/ \E c \in CPUS : smp_unlock(c)
    \/ \E c \in CPUS : smp_enter_lowpower(c)
    \/ \E c \in CPUS : smp_set_on(c)
    \/ \E c \in CPUS : smp_vote_dec(c)
    \/ \E c \in CPUS : smp_broadcast_exit(c)
    \/ \E c \in CPUS : smp_return(c)
    \/ \E c \in CPUS : coupled_start(c)
    \/ \E c \in CPUS : coupled_poll(c)
    \/ \E c \in CPUS : coupled_check_done(c)
    \/ \E c \in CPUS : coupled_broadcast_enter(c)
    \/ \E c \in CPUS : coupled_cpu_pm_enter(c)
    \/ \E c \in CPUS : coupled_set_mpu(c)
    \/ \E c \in CPUS : coupled_cluster_pm_enter(c)
    \/ \E c \in CPUS : coupled_enter_lowpower(c)
    \/ \E c \in CPUS : coupled_set_done(c)
    \/ \E c \in CPUS : coupled_restore_mpu(c)
    \/ \E c \in CPUS : coupled_clkdm_wakeup(c)
    \/ \E c \in CPUS : coupled_cpu1_on(c)
    \/ \E c \in CPUS : coupled_clkdm_allow_idle(c)
    \/ \E c \in CPUS : coupled_cpu_pm_exit(c)
    \/ \E c \in CPUS : coupled_cluster_pm_exit(c)
    \/ \E c \in CPUS : coupled_broadcast_exit(c)
    \/ \E c \in CPUS : barrier_arrive(c)
    \/ \E c \in CPUS : barrier_wait(c)
    \/ \E c \in CPUS : barrier_leave(c)
    \/ \E c \in CPUS : barrier_wait_reset(c)
    \/ \E c \in CPUS : coupled_clear_done(c)
    \/ \E c \in CPUS : coupled_return(c)

Spec == Init /\ [][Next]_vars

(* ================================================================== *)
(* Properties                                                         *)
(* ================================================================== *)

\* The commands omap_enter_idle_smp has issued to mpu_pd, oldest first.
IsSmpCmd(e) == e.fn = "smp"
SmpLog == SelectSeq(mpu_log, IsSmpCmd)

\* The commands omap_enter_idle_coupled has issued to mpu_pd, oldest first.
IsCoupledCmd(e) == e.fn = "coupled"
CoupledLog == SelectSeq(mpu_log, IsCoupledCmd)

\* omap_enter_idle_smp is only reachable through omap5_idle_driver, state 1.
SmpIdx == 1
SmpLow == omap5_idle_data(SmpIdx).mpu_pwrst

\* CPUs that have executed the vote increment and not yet the decrement.
VotedLabels == {"s_chk1", "s_unlock1", "s_lowpower", "s_sleep", "s_lock2", "s_chk2", "s_dec"}
Voters == {c \in CPUS : pc[c] \in VotedLabels}

\* A step in which omap_enter_idle_smp issues a command to mpu_pd.
SmpCmdStep == /\ Len(mpu_log') = Len(mpu_log) + 1
              /\ mpu_log'[Len(mpu_log')].fn = "smp"

\* C1 (symmetric variant): whenever mpu_lock is free, the MPU domain's commanded
\* target is the state's low-power target exactly when the state's vote counter
\* equals the number of online CPUs.  A low-power command is issued only by the
\* CPU whose increment has just brought the counter to that number, and a
\* fully-on command only by a CPU that holds the lock, finds the counter at
\* that number and decrements it next, in the same critical section.
C1_TargetIffQuorum ==
    /\ [](driver = "omap5_idle" /\ mpu_lock = {}
            => ((mpu_next = SmpLow) <=> (mpu_state_vote[SmpIdx] = Cardinality(online))))
    /\ [][SmpCmdStep =>
            LET e == mpu_log'[Len(mpu_log')] IN
            /\ mpu_lock = {e.cpu}
            /\ mpu_state_vote[SmpIdx] = Cardinality(online)
            /\ IF e.st = "ON"
               THEN pc[e.cpu] = "s_chk2" /\ pc'[e.cpu] = "s_dec"
               ELSE e.st = SmpLow /\ pc[e.cpu] = "s_chk1"]_vars

\* Both CPUs have voted, the lock is free and the domain is commanded low
\* while both sleep.
C1_Witness ==
    /\ online = {0, 1}
    /\ mpu_lock = {}
    /\ mpu_state_vote[SmpIdx] = 2
    /\ mpu_next = SmpLow
    /\ pc[0] = "s_sleep" /\ pc[1] = "s_sleep"

\* C2 (symmetric variant): the commands to the MPU domain alternate low-power,
\* fully-on, low-power, ..., starting with low-power; outside the critical
\* sections there is one low-power command per quorum formed so far and one
\* fully-on command per quorum that has since been left; so two CPUs that both
\* vote before either exits, and then both exit, issue exactly one low-power
\* command followed by exactly one fully-on command.
C2_CommandsAlternate ==
    /\ \A k \in 1 .. Len(SmpLog) :
          SmpLog[k].st = (IF k % 2 = 1 THEN SmpLow ELSE "ON")
    /\ mpu_lock = {} =>
          Len(SmpLog) = 2 * quorums
                        - (IF mpu_state_vote[SmpIdx] = Cardinality(online) THEN 1 ELSE 0)
    /\ (online = {0, 1} /\ quorums = 1 /\ pc[0] = "idle" /\ pc[1] = "idle")
          => /\ Len(SmpLog) = 2
             /\ SmpLog[1].st = SmpLow
             /\ SmpLog[2].st = "ON"

\* Both CPUs have returned from omap_enter_idle_smp after one full quorum.
C2_Witness ==
    /\ online = {0, 1}
    /\ quorums = 1
    /\ calls = 2
    /\ pc[0] = "idle" /\ pc[1] = "idle"
    /\ ret[0] = <<SmpIdx>> /\ ret[1] = <<SmpIdx>>
    /\ Len(SmpLog) = 2

\* C3 (symmetric variant): the vote counter equals the number of CPUs that have
\* executed the increment and not yet the decrement, so it lies in [0, N]; a
\* sleeping CPU is counted.
C3_VoteCountsVoters ==
    /\ mpu_state_vote[SmpIdx] = Cardinality(Voters)
    /\ \A i \in StateIdx : mpu_state_vote[i] >= 0 /\ mpu_state_vote[i] <= Cardinality(online)
    /\ \A i \in StateIdx \ {SmpIdx} : mpu_state_vote[i] = 0
    /\ \A c \in CPUS : pc[c] = "s_sleep" => c \in Voters /\ mpu_state_vote[SmpIdx] >= 1

\* One CPU sleeps with its vote cast while the other, back from an earlier
\* call, is about to vote again.
C3_Witness ==
    /\ online = {0, 1}
    /\ mpu_state_vote[SmpIdx] = 1
    /\ \E c \in CPUS : pc[c] = "s_sleep" /\ pc[1 - c] = "s_lock1" /\ ret[1 - c] = <<>> /\ calls >= 3

(* ---------------------------------------------------- coupled variant *)

\* The CPU's current or last callback is omap_enter_idle_coupled.
InCoupled(c) == driver # "none" /\ c \in online /\ calls > 0 /\ EnterFn(requested[c]) = "coupled"

\* Positions of omap_enter_idle_coupled before, inside and after the barrier call.
WaitLoopLabels == {"c_start", "c_poll", "c_chk_done"}
BeforeBarrierLabels ==
    WaitLoopLabels \cup
    {"c_bc_enter", "c_pm_enter", "c_mpu_set", "c_cluster_enter", "c_lowpower", "c_sleep",
     "c_set_done", "c_mpu_restore", "c_clkdm_wakeup", "c_cpu1_on", "c_allow_idle",
     "c_pm_exit", "c_cluster_exit", "c_bc_exit", "c_barrier"}
InBarrierLabels == {"c_bar_wait", "c_bar_leave", "c_bar_reset"}
AfterBarrierLabels == {"c_clear_done", "c_ret", "idle"}

\* The calls omap_enter_idle_coupled makes outside the fail: path.
SequenceEvents ==
    {"bc_enter", "cpu_pm_enter", "mpu_set", "cpu_cluster_pm_enter", "lowpower", "set_done",
     "mpu_restore", "clkdm_wakeup", "cpu1_set_on", "clkdm_allow_idle", "cpu_pm_exit",
     "cpu_cluster_pm_exit", "bc_exit"}

Events(seq) == {seq[k] : k \in 1 .. Len(seq)}

\* The next statement of CPU c's callback, whichever it is.
CpuStep(c) ==
    \/ omap_do_wfi(c) \/ simple_return(c)
    \/ smp_broadcast_enter(c) \/ smp_lock(c) \/ smp_vote_inc(c) \/ smp_set_low(c)
    \/ smp_unlock(c) \/ smp_enter_lowpower(c) \/ smp_set_on(c) \/ smp_vote_dec(c)
    \/ smp_broadcast_exit(c) \/ smp_return(c)
    \/ coupled_start(c) \/ coupled_poll(c) \/ coupled_check_done(c)
    \/ coupled_broadcast_enter(c) \/ coupled_cpu_pm_enter(c) \/ coupled_set_mpu(c)
    \/ coupled_cluster_pm_enter(c) \/ coupled_enter_lowpower(c) \/ coupled_set_done(c)
    \/ coupled_restore_mpu(c) \/ coupled_clkdm_wakeup(c) \/ coupled_cpu1_on(c)
    \/ coupled_clkdm_allow_idle(c) \/ coupled_cpu_pm_exit(c) \/ coupled_cluster_pm_exit(c)
    \/ coupled_broadcast_exit(c) \/ barrier_arrive(c) \/ barrier_wait(c)
    \/ barrier_leave(c) \/ barrier_wait_reset(c) \/ coupled_clear_done(c)
    \/ coupled_return(c)

\* The model with CPU0's execution weakly fair: CPU0 does not stop between two
\* statements of its callback.  Nothing is assumed of CPU1, of wake-ups or of
\* new idle requests.
FairSpec == Spec /\ WF_vars(CpuStep(0))

\* C4 (coupled variant, follower online): at the step where CPU0 commands the
\* MPU domain to its low-power target, CPU1's power domain reads OFF.
C4_FollowerOffWhenLowered ==
    [][(pc[0] = "c_mpu_set" /\ pc'[0] # "c_mpu_set" /\ 1 \in online)
          => fpwrst[1] = "OFF"]_vars

\* C5 (coupled variant, abort path): once CPU0 has seen cpu_done[1] set in its
\* wait loop, it is at the abort barrier or past it, and in that episode it has
\* made none of the calls of the full sequence: no broadcast or PM notifier
\* call, no command to the MPU domain or to CPU1's domains, no low-power entry.
C5_AbortSkipsSequence ==
    (InCoupled(0) /\ saw = "done")
        => /\ pc[0] \in {"c_barrier"} \cup InBarrierLabels \cup AfterBarrierLabels
           /\ Events(trace[0]) \cap SequenceEvents = {}
           /\ trace[0] \in {<<>>, <<"barrier">>, <<"barrier", "clear_done">>}

\* CPU0 has returned through the abort path.
C5_Witness ==
    /\ InCoupled(0) /\ saw = "done"
    /\ pc[0] = "idle" /\ ret[0] # <<>>
    /\ trace[0] = <<"barrier", "clear_done">>

\* C6 (coupled variant, liveness): if CPU1 has set its completion flag while
\* CPU0 is still in its wait loop, CPU0 eventually arrives at the abort barrier
\* by the abort path; and if CPU0 never read CPU1's power state as OFF, CPU1's
\* flag is not cleared before CPU0 has seen it set.
C6_LeaderLeavesWaitLoop ==
    /\ (1 \in online /\ InCoupled(0) /\ cpu_done[1] /\ pc[0] \in WaitLoopLabels)
          ~> (pc[0] = "c_barrier" /\ saw = "done")
    /\ [][(cpu_done[1] /\ ~cpu_done'[1] /\ saw # "off") => saw = "done"]_vars

\* CPU1 has set its flag while CPU0 is polling and has not read OFF.
C6_Witness ==
    /\ 1 \in online /\ InCoupled(0)
    /\ cpu_done[1] /\ pc[0] = "c_poll" /\ saw = "none"
    /\ "lowpower" \in Events(trace[1])

\* C7 (coupled variant): each CPU calls the abort barrier exactly once per
\* episode: never before it reaches the fail: label, once from then on, and
\* in particular once when it returns, on the full path and on the abort path.
C7_BarrierExactlyOnce ==
    \A c \in CPUS : InCoupled(c) =>
        Count(trace[c], "barrier") =
            (IF pc[c] \in BeforeBarrierLabels THEN 0 ELSE 1)

\* Both CPUs have returned, CPU0 by the abort path and CPU1 by the full path.
C7_Witness ==
    /\ online = {0, 1} /\ InCoupled(0) /\ InCoupled(1)
    /\ pc[0] = "idle" /\ pc[1] = "idle"
    /\ ret[0] # <<>> /\ ret[1] # <<>>
    /\ saw = "done"
    /\ "lowpower" \in Events(trace[1])

C9_RestoredBeforeBarrier ==
    (InCoupled(0) /\ pc[0] \in {"c_barrier"} \cup InBarrierLabels \cup AfterBarrierLabels
        /\ "mpu_set" \in Events(trace[0]))
        => /\ "mpu_restore" \in Events(trace[0])
           /\ mpu_log[Len(mpu_log)].st = "ON"

\* C10 (coupled variant): every command to the MPU domain is issued by CPU0;
\* CPU1 never issues one.
C10_OnlyLeaderCommands ==
    /\ \A k \in 1 .. Len(CoupledLog) : CoupledLog[k].cpu = 0
    /\ InCoupled(1) => Events(trace[1]) \cap {"mpu_set", "mpu_restore"} = {}

\* CPU1 is past its low-power entry in an episode in which CPU0 has lowered
\* and restored the MPU domain.
C10_Witness ==
    /\ online = {0, 1} /\ InCoupled(1)
    /\ "set_done" \in Events(trace[1])
    /\ "mpu_restore" \in Events(trace[0])
    /\ Len(CoupledLog) >= 2

\* CPU c has been released from the abort barrier of its current (or last)
\* coupled episode.
Released(c) == InCoupled(c) /\ pc[c] \in AfterBarrierLabels

\* C11 (coupled variant, both CPUs online): a CPU is released from the abort
\* barrier, and so returns, only when its peer has arrived at the barrier: the
\* peer is then past every power-domain, clock-domain and notifier call of the
\* episode.
C11_NoReturnBeforePeerArrives ==
    \A c \in CPUS : (online = {0, 1} /\ Released(c)) =>
        /\ pc[1 - c] \notin BeforeBarrierLabels
        /\ InCoupled(1 - c) => "barrier" \in Events(trace[1 - c])
        /\ InCoupled(1 - c) => trace[1 - c][Len(trace[1 - c])] \in {"barrier", "clear_done"}

\* CPU0 has returned by the abort path while CPU1, which ran the full sequence,
\* is still inside the barrier.
C11_Witness ==
    /\ online = {0, 1}
    /\ pc[0] = "idle" /\ ret[0] # <<>> /\ InCoupled(0) /\ saw = "done"
    /\ pc[1] \in InBarrierLabels
    /\ "bc_exit" \in Events(trace[1])

\* C12 (coupled variant): a CPU's completion flag goes from set to clear only
\* in that CPU's own statement after the barrier has released it, so CPU1's
\* flag, once set, stays set as long as CPU0 has not arrived at the barrier.
C12_FlagClearedAfterBarrier ==
    /\ [][\A c \in CPUS : (cpu_done[c] /\ ~cpu_done'[c]) =>
            /\ pc[c] = "c_clear_done" /\ pc'[c] = "c_ret"
            /\ Count(trace[c], "barrier") = 1
            /\ \A d \in online : pc[d] \notin BeforeBarrierLabels]_vars
    /\ []((online = {0, 1} /\ InCoupled(0) /\ pc[0] \in BeforeBarrierLabels
             /\ "set_done" \in Events(trace[1]))
          => cpu_done[1])

\* CPU1 waits inside the barrier with its flag set while CPU0 is still polling.
C12_Witness ==
    /\ online = {0, 1} /\ InCoupled(0)
    /\ pc[0] = "c_chk_done"
    /\ pc[1] = "c_bar_wait"
    /\ cpu_done[1]

(* ------------------------------------------------------ omap4_idle_init *)

LookupNames == {"mpu_pwrdm", "cpu0_pwrdm", "cpu1_pwrdm", "mpu0_clkdm", "mpu1_clkdm"}

\* C13 (omap4_idle_init): when one of the three power-domain lookups or of the
\* two clock-domain lookups fails, init returns -ENODEV, which is negative, and
\* has configured no broadcast timer, selected no state table and registered no
\* driver; on an SoC that is neither OMAP44xx nor OMAP54xx it returns -ENODEV
\* with no state table selected and no driver registered.
C13_InitFailsWithoutEffect ==
    init_ret # <<>> =>
        /\ (\E n \in LookupNames : ~lookup[n]) =>
              /\ init_ret = <<-ENODEV>> /\ init_ret[1] < 0
              /\ bc_on = {}
              /\ state_ptr = "null"
              /\ driver = "none"
        /\ soc = "other" =>
              /\ init_ret = <<-ENODEV>> /\ init_ret[1] < 0
              /\ state_ptr = "null"
              /\ driver = "none"

\* Init has returned after only a clock-domain lookup failed.
C13_Witness ==
    /\ init_ret = <<-ENODEV>>
    /\ lookup["mpu_pwrdm"] /\ lookup["cpu0_pwrdm"] /\ lookup["cpu1_pwrdm"]
    /\ lookup["mpu0_clkdm"] /\ ~lookup["mpu1_clkdm"]
    /\ online = {0, 1}
    /\ soc = "omap44xx"

(* ------------------------------------------------- whole-call sequences *)

\* CPU c has returned from its callback.
Returned(c) == pc[c] = "idle" /\ ret[c] # <<>>

\* The callback CPU c is in, or was in last.
CurrentFn(c) == EnterFn(requested[c])

\* CPU c's coupled episode took the early-abort path.
Aborted(c) == c = 0 /\ saw = "done"

Opt(cond, seq) == IF cond THEN seq ELSE <<>>

\* C14: an error of a domain-state-set call changes nothing that follows: with
\* or without one, a CPU that has returned from the coupled callback by the
\* full path has made the same calls in the same order (low-power entry,
\* restore, notifier exits, barrier), a CPU that has returned from the
\* symmetric callback has made its three calls and taken its vote back, and
\* both have returned the requested index.
C14_SetErrorIgnored ==
    \A c \in online : (driver # "none" /\ Returned(c)) =>
        /\ ret[c] = <<requested[c]>>
        /\ (CurrentFn(c) = "coupled" /\ ~Aborted(c)) =>
              trace[c] =
                  <<"bc_enter", "cpu_pm_enter">>
                  \o Opt(c = 0, <<"mpu_set">>)
                  \o Opt(c = 0 /\ cx(requested[c]).mpu_pwrst = "OSWR", <<"cpu_cluster_pm_enter">>)
                  \o <<"lowpower", "set_done">>
                  \o Opt(c = 0 /\ 1 \in online,
                         <<"mpu_restore", "clkdm_wakeup", "cpu1_set_on", "clkdm_allow_idle">>)
                  \o <<"cpu_pm_exit">>
                  \o Opt(cx(requested[c]).mpu_pwrst = "OSWR", <<"cpu_cluster_pm_exit">>)
                  \o <<"bc_exit", "barrier", "clear_done">>
        /\ CurrentFn(c) = "smp" =>
              /\ trace[c] = <<"bc_enter", "lowpower", "bc_exit">>
              /\ c \notin Voters

\* CPU0 has returned from a coupled episode in which its one set call, the
\* lowering of the MPU domain, returned an error.
C14_Witness ==
    /\ online = {0}
    /\ Returned(0) /\ CurrentFn(0) = "coupled"
    /\ set_err[0]
    /\ "lowpower" \in Events(trace[0])

\* Position of the first ev in seq, 0 when there is none.
Pos(seq, ev) ==
    IF ev \in Events(seq)
    THEN CHOOSE k \in 1 .. Len(seq) : seq[k] = ev /\ \A j \in 1 .. (k - 1) : seq[j] # ev
    ELSE 0

\* ev1 and ev2 both occur in seq, ev1 first.
Precedes(seq, ev1, ev2) == Pos(seq, ev1) > 0 /\ Pos(seq, ev1) < Pos(seq, ev2)

\* CPU0 is in, or has finished, a coupled episode in which it has entered low power.
LeaderSlept == InCoupled(0) /\ "lowpower" \in Events(trace[0])

\* C15 as stated (coupled variant, leader, before sleeping): the broadcast-enter
\* notification comes first, the low-power entry last, and whenever the
\* cluster-level suspend chain is called it is called before the MPU domain is
\* commanded to its low-power target.
C15_ClusterBeforeMpuSet ==
    LeaderSlept =>
        /\ Precedes(trace[0], "bc_enter", "mpu_set")
        /\ Precedes(trace[0], "mpu_set", "lowpower")
        /\ "cpu_cluster_pm_enter" \in Events(trace[0])
              => Precedes(trace[0], "cpu_cluster_pm_enter", "mpu_set")

\* C15 as amended: up to its low-power entry CPU0 calls, in this order, the
\* broadcast-enter notification, cpu_pm_enter, the command setting the MPU
\* domain to its low-power target, the cluster-level suspend chain (only when
\* that target is OSWR), and the low-power entry; with CPU1 online it has left
\* the wait loop on reading CPU1's power state as OFF.
C15_LeaderEntryOrder ==
    LeaderSlept =>
        /\ SubSeq(trace[0], 1, Pos(trace[0], "lowpower")) =
              <<"bc_enter", "cpu_pm_enter", "mpu_set">>
              \o Opt(cx(requested[0]).mpu_pwrst = "OSWR", <<"cpu_cluster_pm_enter">>)
              \o <<"lowpower">>
        /\ 1 \in online => saw = "off"

\* CPU0 sleeps in an OSWR episode with CPU1 online and OFF.
C15_Witness ==
    /\ online = {0, 1} /\ InCoupled(0)
    /\ pc[0] = "c_sleep" /\ pc[1] = "c_sleep"
    /\ cx(requested[0]).mpu_pwrst = "OSWR"
    /\ "cpu_cluster_pm_enter" \in Events(trace[0])

\* CPU0 is in, or has finished, a coupled episode with CPU1 online in which it
\* has made the call ev.
LeaderDid(ev) == InCoupled(0) /\ 1 \in online /\ ev \in Events(trace[0])

\* C16 as stated (coupled variant, leader, follower online, after the low-power
\* entry returns): by the time of its broadcast-exit notification the leader
\* has restored the MPU domain to ON, woken CPU1's clock domain, commanded
\* CPU1's power domain ON and called the cluster-level resume chain, in this
\* order.
C16_AllFiveInOrder ==
    LeaderDid("bc_exit") =>
        /\ Precedes(trace[0], "lowpower", "mpu_restore")
        /\ Precedes(trace[0], "mpu_restore", "clkdm_wakeup")
        /\ Precedes(trace[0], "clkdm_wakeup", "cpu1_set_on")
        /\ Precedes(trace[0], "cpu1_set_on", "cpu_cluster_pm_exit")
        /\ Precedes(trace[0], "cpu_cluster_pm_exit", "bc_exit")

\* C16 as amended: after its low-power entry the leader restores the MPU
\* domain to ON, wakes CPU1's clock domain and commands CPU1's power domain ON,
\* in this order; the cluster-level resume chain follows exactly when the MPU
\* target is OSWR, and the broadcast-exit notification comes last.  CPU1's
\* power domain is never commanded ON before the MPU domain has been restored.
C16_LeaderExitOrder ==
    /\ LeaderDid("cpu1_set_on") =>
          /\ Precedes(trace[0], "lowpower", "mpu_restore")
          /\ Precedes(trace[0], "mpu_restore", "clkdm_wakeup")
          /\ Precedes(trace[0], "clkdm_wakeup", "cpu1_set_on")
          /\ \E k \in 1 .. Len(mpu_log) : mpu_log[k] = MpuCmd(0, "coupled", "ON")
    /\ LeaderDid("cpu_cluster_pm_exit") =>
          /\ cx(requested[0]).mpu_pwrst = "OSWR"
          /\ Precedes(trace[0], "cpu1_set_on", "cpu_cluster_pm_exit")
    /\ LeaderDid("bc_exit") =>
          /\ Precedes(trace[0], "cpu1_set_on", "bc_exit")
          /\ cx(requested[0]).mpu_pwrst = "OSWR"
                => Precedes(trace[0], "cpu_cluster_pm_exit", "bc_exit")
          /\ cx(requested[0]).mpu_pwrst # "OSWR"
                => "cpu_cluster_pm_exit" \notin Events(trace[0])

\* The leader has gone through the whole exit sequence of a CSWR episode with
\* CPU1 online, without a call of the cluster-level resume chain.
C16_Witness ==
    /\ LeaderDid("bc_exit") /\ LeaderDid("cpu1_set_on")
    /\ cx(requested[0]).mpu_pwrst = "CSWR"
    /\ pc[0] = "c_barrier"

\* CPU0 is in, or has finished, a coupled episode in which it has called
\* cpu_pm_exit.
LeaderResumed == InCoupled(0) /\ "cpu_pm_exit" \in Events(trace[0])

\* C17 as stated (coupled variant, leader, full sequence): whenever the leader
\* commands the MPU domain back to ON, it has called cpu_pm_exit before.
C17_PmExitBeforeRestore ==
    LeaderDid("mpu_restore") => Precedes(trace[0], "cpu_pm_exit", "mpu_restore")

\* C17 as amended: the leader's events occur in the order wait-for-peer (with
\* CPU1 online, ended by reading CPU1 as OFF), cpu_pm_enter, MPU domain
\* lowered, low-power entry, MPU domain commanded ON (with CPU1 online; not at
\* all otherwise), cpu_pm_exit, episode done; the restoring of the MPU domain
\* precedes cpu_pm_exit.
C17_LeaderStateOrder ==
    /\ (InCoupled(0) /\ 1 \in online /\ "cpu_pm_enter" \in Events(trace[0])) => saw = "off"
    /\ LeaderResumed =>
          /\ Precedes(trace[0], "cpu_pm_enter", "mpu_set")
          /\ Precedes(trace[0], "mpu_set", "lowpower")
          /\ Precedes(trace[0], "lowpower", "cpu_pm_exit")
          /\ IF 1 \in online
             THEN /\ Precedes(trace[0], "lowpower", "mpu_restore")
                  /\ Precedes(trace[0], "mpu_restore", "cpu_pm_exit")
             ELSE "mpu_restore" \notin Events(trace[0])
    /\ (InCoupled(0) /\ Returned(0) /\ ~Aborted(0)) =>
          /\ LeaderResumed
          /\ Precedes(trace[0], "cpu_pm_exit", "clear_done")

\* The leader has returned from a full episode with CPU1 online, in which it
\* restored the MPU domain and called cpu_pm_exit.
C17_Witness ==
    /\ InCoupled(0) /\ Returned(0) /\ ~Aborted(0)
    /\ LeaderDid("mpu_restore") /\ LeaderResumed

\* The events of seq that are in evs, in their order.
Filter(seq, evs) == SelectSeq(seq, LAMBDA ev : ev \in evs)

IsPrefix(s1, s2) == Len(s1) <= Len(s2) /\ s1 = SubSeq(s2, 1, Len(s1))

\* The follower's calls in the order of omap_enter_idle_coupled.
FollowerSequence ==
    <<"cpu_pm_enter", "lowpower", "set_done", "cpu_pm_exit", "barrier", "clear_done">>

\* C18 (coupled variant, CPU1): the follower is never in the wait loop; its
\* calls are, in this order, cpu_pm_enter, the low-power entry, setting its
\* completion flag, cpu_pm_exit, the barrier, clearing its flag, and it has made
\* all of them when it returns; its flag is set only after its low-power entry
\* has returned, never while it sleeps.
C18_FollowerSequence ==
    InCoupled(1) =>
        /\ pc[1] \notin {"c_poll", "c_chk_done"}
        /\ IsPrefix(Filter(trace[1], Events(FollowerSequence)), FollowerSequence)
        /\ Returned(1) => Filter(trace[1], Events(FollowerSequence)) = FollowerSequence
        /\ cpu_done[1] => (pc[1] # "c_sleep" /\ "lowpower" \in Events(trace[1]))
        /\ pc[1] \in {"c_start", "c_bc_enter", "c_pm_enter", "c_lowpower", "c_sleep", "c_set_done"}
              => ~cpu_done[1]

\* The follower has slept, woken, set its flag and reached the barrier while
\* the leader has not yet taken a step of the episode.
C18_Witness ==
    /\ InCoupled(1) /\ pc[1] = "c_bar_wait" /\ cpu_done[1]
    /\ pc[0] = "c_start"
    /\ Filter(trace[1], Events(FollowerSequence)) = SubSeq(FollowerSequence, 1, 5)

\* Every CPU that is inside a callback eventually executes its next statement;
\* nothing is assumed about when a sleeping CPU is woken.
FairCpusSpec == Spec /\ \A c \in CPUS : WF_vars(CpuStep(c))

\* The two tests of the wait loop.
LoopTestLabels == {"c_poll", "c_chk_done"}

\* C19 (coupled variant, CPU1 online): CPU0 leaves its wait loop only at the
\* loop condition having read CPU1's power state as OFF, or at the flag test
\* having read CPU1's completion flag as set; any other step of the loop keeps
\* it in the loop, so without either reading it never leaves.  When both CPUs
\* keep executing their statements, CPU0's wait ends.
C19_WaitLoopExits ==
    /\ [][(1 \in online /\ pc[0] \in LoopTestLabels /\ pc'[0] \notin LoopTestLabels)
             => \/ pc[0] = "c_poll" /\ fpwrst[1] = "OFF" /\ pc'[0] = "c_bc_enter"
                \/ pc[0] = "c_chk_done" /\ cpu_done[1] /\ pc'[0] = "c_barrier"]_vars
    /\ (1 \in online /\ pc[0] \in LoopTestLabels) ~> (pc[0] \notin LoopTestLabels)

\* CPU0 has left the loop on reading CPU1, asleep, as OFF.
C19_Witness ==
    /\ 1 \in online /\ InCoupled(0)
    /\ pc[0] = "c_bc_enter" /\ saw = "off"
    /\ pc[1] = "c_sleep" /\ fpwrst[1] = "OFF" /\ ~cpu_done[1]

\* In CPU c's current call: at most one call of enter, no call of exit without
\* the call of enter, enter before the low-power entry and exit after it, and
\* exactly one of each once the call has returned by the full path.
Paired(c, enter, exit) ==
    /\ Count(trace[c], exit) <= Count(trace[c], enter)
    /\ Count(trace[c], enter) <= 1
    /\ "lowpower" \in Events(trace[c]) => Precedes(trace[c], enter, "lowpower")
    /\ exit \in Events(trace[c]) => Precedes(trace[c], "lowpower", exit)
    /\ (Returned(c) /\ ~Aborted(c)) =>
          Count(trace[c], enter) = 1 /\ Count(trace[c], exit) = 1

\* The four notifications of C20.
PairEvents == {"bc_enter", "bc_exit", "cpu_pm_enter", "cpu_pm_exit"}

\* C20 (symmetric and coupled callbacks, per CPU and per call): the
\* broadcast-enter and broadcast-exit notifications are a matched pair around
\* the low-power entry, and so are cpu_pm_enter and cpu_pm_exit in the coupled
\* callback (the symmetric callback calls neither); on the coupled early-abort
\* path none of the four is called.
C20_NotificationsPaired ==
    \A c \in online : (driver # "none" /\ calls > 0) =>
        /\ CurrentFn(c) = "smp" =>
              /\ Paired(c, "bc_enter", "bc_exit")
              /\ Count(trace[c], "cpu_pm_enter") = 0 /\ Count(trace[c], "cpu_pm_exit") = 0
        /\ (CurrentFn(c) = "coupled" /\ ~Aborted(c)) =>
              /\ Paired(c, "bc_enter", "bc_exit")
              /\ Paired(c, "cpu_pm_enter", "cpu_pm_exit")
        /\ (CurrentFn(c) = "coupled" /\ Aborted(c)) =>
              Events(trace[c]) \cap PairEvents = {}

\* Both CPUs have returned from a coupled episode: CPU1 by the full path with
\* one call of each of the four notifications, CPU0 by the abort path with
\* none.
C20_Witness ==
    /\ online = {0, 1} /\ Returned(0) /\ Returned(1)
    /\ CurrentFn(1) = "coupled" /\ Aborted(0)
    /\ \A ev \in PairEvents : Count(trace[1], ev) = 1
    /\ Events(trace[0]) \cap PairEvents = {}

\* C21 (coupled variant, per CPU and per episode): a CPU has called
\* cpu_cluster_pm_exit only if it has called cpu_cluster_pm_enter before, each
\* at most once, and a CPU that has returned has called both or neither; CPU1
\* calls neither.
C21_ClusterPaired ==
    \A c \in online : (driver # "none" /\ calls > 0 /\ CurrentFn(c) = "coupled") =>
        /\ Count(trace[c], "cpu_cluster_pm_enter") <= 1
        /\ Count(trace[c], "cpu_cluster_pm_exit") <= Count(trace[c], "cpu_cluster_pm_enter")
        /\ "cpu_cluster_pm_exit" \in Events(trace[c])
              => Precedes(trace[c], "cpu_cluster_pm_enter", "cpu_cluster_pm_exit")
        /\ Returned(c) =>
              Count(trace[c], "cpu_cluster_pm_exit") = Count(trace[c], "cpu_cluster_pm_enter")
        /\ c = 1 => Events(trace[c]) \cap {"cpu_cluster_pm_enter", "cpu_cluster_pm_exit"} = {}

\* Positions of omap_enter_idle_smp between a lock and the matching unlock.
LockedLabels == {"s_inc", "s_chk1", "s_unlock1", "s_chk2", "s_dec", "s_unlock2"}

\* Positions of omap_enter_idle_smp outside the two critical sections.
UnlockedLabels == {"s_bc_enter", "s_lock1", "s_lowpower", "s_sleep", "s_lock2", "s_bc_exit", "s_ret"}

\* C22 (symmetric variant): a CPU holds mpu_lock exactly at the statements
\* between a lock and its unlock, which are all the statements that read or
\* write the vote counter or command the MPU domain; at most one CPU holds it;
\* a CPU at or in its low-power entry does not hold it; and every step that
\* changes a vote counter or issues a command of the symmetric callback is a
\* step of the one CPU holding the lock.
C22_LockDiscipline ==
    /\ [](/\ Cardinality(mpu_lock) <= 1
          /\ \A c \in CPUS :
                /\ c \in mpu_lock <=> pc[c] \in LockedLabels
                /\ pc[c] \in UnlockedLabels => c \notin mpu_lock)
    /\ [][(mpu_state_vote' # mpu_state_vote \/ SmpCmdStep)
             => \E c \in CPUS : /\ pc'[c] # pc[c]
                                /\ mpu_lock = {c} /\ mpu_lock' = {c}]_vars

\* One CPU sleeps in the symmetric callback, its vote cast and the lock
\* released, while the other holds the lock and finds the quorum complete.
C22_Witness ==
    /\ pc[0] = "s_sleep" /\ pc[1] = "s_chk1"
    /\ mpu_lock = {1}
    /\ VoteIsQuorum(index[1])

\* CPU c is inside omap_enter_idle_smp.
InSmp(c) == pc[c] \in LockedLabels \cup UnlockedLabels

\* CPU c is outside the part of omap_enter_idle_smp that runs from the first
\* lock to the second unlock: it has not entered it, or has left it and has
\* not entered it again.
OutsideVote(c) == pc[c] \notin {"s_inc"} \cup VotedLabels \cup {"s_unlock2"}

\* The last command of omap_enter_idle_smp to the MPU domain, if any, was ON.
SmpTargetOn == SmpLog = <<>> \/ SmpLog[Len(SmpLog)].st = "ON"

\* C23 (symmetric variant, fixed N): when no CPU is inside omap_enter_idle_smp
\* every vote counter is 0 and the callback's last command to the MPU domain,
\* if any, was ON; and whenever some online CPU is past its exit critical
\* section and has not entered the callback's critical section again, the
\* callback's last command was ON, and the domain's commanded target is ON
\* unless another callback has commanded the domain since.
C23_QuiescentOn ==
    /\ (\A c \in CPUS : ~InSmp(c)) =>
          /\ \A i \in StateIdx : mpu_state_vote[i] = 0
          /\ SmpTargetOn
    /\ (\E c \in online : OutsideVote(c)) =>
          /\ SmpTargetOn
          /\ (mpu_log = <<>> \/ mpu_log[Len(mpu_log)].fn = "smp") => mpu_next = "ON"

\* After a full quorum CPU0 has left its exit critical section, having
\* commanded the domain ON, while CPU1 still sleeps with its vote cast.
C23_Witness ==
    /\ online = {0, 1} /\ quorums = 1
    /\ pc[0] = "s_ret" /\ pc[1] = "s_sleep"
    /\ Len(SmpLog) = 2 /\ mpu_next = "ON"
    /\ mpu_state_vote[SmpIdx] = 1

\* Every CPU inside a callback eventually executes its next statement, and
\* every sleeping CPU is eventually woken.
FairWakeSpec ==
    Spec /\ \A c \in CPUS : WF_vars(CpuStep(c)) /\ WF_vars(Wakeup(c))

\* CPU c is inside omap_enter_idle_coupled.
InsideCoupled(c) ==
    pc[c] \in (BeforeBarrierLabels \cup InBarrierLabels \cup AfterBarrierLabels) \ {"idle"}

\* C24 (coupled variant, both CPUs online, liveness): each CPU that is inside
\* omap_enter_idle_coupled eventually returns from it, whichever way the
\* episode goes.
C24_EpisodeEnds ==
    \A c \in CPUS :
        (online = {0, 1} /\ InsideCoupled(c)) ~> (pc[c] = "idle" /\ ret[c] = <<requested[c]>>)

\* Both CPUs have returned from an episode in which CPU0 read CPU1 as OFF and
\* both went through the low-power entry.
C24_Witness ==
    /\ online = {0, 1} /\ InCoupled(0) /\ InCoupled(1)
    /\ Returned(0) /\ Returned(1)
    /\ saw = "off"
    /\ "lowpower" \in Events(trace[0]) /\ "lowpower" \in Events(trace[1])

\* The calls by which CPU0 acts on CPU1's clock and power domains.
FollowerDomainEvents == {"clkdm_wakeup", "cpu1_set_on", "clkdm_allow_idle"}

\* The statements of the block guarded by
\* dev->cpu == 0 && cpumask_test_cpu(1, cpu_online_mask) after the low-power entry.
WakeFollowerLabels == {"c_mpu_restore", "c_clkdm_wakeup", "c_cpu1_on", "c_allow_idle"}

\* C25 (coupled variant, CPU1 offline): CPU0 is never in the wait loop and
\* never takes the abort path; it never reaches the statements that wake
\* CPU1's clock domain or command CPU1's power domain, and has made none of
\* these calls; no step changes CPU1's power state or moves CPU1.
C25_FollowerOfflineFrame ==
    /\ []((1 \notin online /\ InCoupled(0)) =>
             /\ pc[0] \notin LoopTestLabels
             /\ ~Aborted(0)
             /\ pc[0] \notin WakeFollowerLabels
             /\ Events(trace[0]) \cap FollowerDomainEvents = {})
    /\ [][1 \notin online => (fpwrst'[1] = fpwrst[1] /\ pc'[1] = pc[1]
                                /\ cpu_done'[1] = cpu_done[1])]_vars

\* With CPU1 offline CPU0 has been through its low-power entry and its exit
\* sequence and stands at the barrier.
C25_Witness ==
    /\ online = {0} /\ InCoupled(0)
    /\ pc[0] = "c_barrier"
    /\ "lowpower" \in Events(trace[0]) /\ "bc_exit" \in Events(trace[0])
    /\ fpwrst[1] = "ON"

\* A step in which CPU c enters omap_enter_idle_coupled.
EntersCoupled(c) == pc[c] = "idle" /\ pc'[c] = "c_start"

\* C26 (coupled variant): a CPU's completion flag is false whenever the CPU is
\* outside omap_enter_idle_coupled; a flag that is set was set by its CPU in
\* the current episode; both flags are false at every step that starts an
\* episode; and CPU0 takes the abort path only on a flag CPU1 has set in the
\* current episode.
C26_FlagFalseOutside ==
    /\ [](\A c \in CPUS :
             /\ ~InsideCoupled(c) => ~cpu_done[c]
             /\ cpu_done[c] => "set_done" \in Events(trace[c]))
    /\ [][(\E c \in CPUS : EntersCoupled(c)) => \A d \in CPUS : ~cpu_done[d]]_vars
    /\ [][(pc[0] = "c_chk_done" /\ pc'[0] = "c_barrier")
             => (cpu_done[1] /\ InsideCoupled(1) /\ "set_done" \in Events(trace[1]))]_vars

\* After an earlier episode, in which CPU0 commanded the MPU domain, CPU0 has
\* taken the abort path on the flag CPU1 set in the current episode.
C26_Witness ==
    /\ online = {0, 1} /\ InCoupled(0)
    /\ CoupledLog # <<>>
    /\ pc[0] = "c_barrier" /\ Aborted(0)
    /\ cpu_done[1] /\ "set_done" \in Events(trace[1])

\* C27 (coupled variant): every step that changes cpu_done[i] is CPU i's own
\* step, at the statement that sets or at the statement that clears its flag;
\* the only flag ever read is CPU1's, read only by CPU0 and only at the flag
\* test inside its wait loop; CPU0's flag is never read.
C27_FlagSingleWriterReader ==
    /\ [](done_reads \subseteq {[by |-> 0, flag |-> 1]})
    /\ [][\A i \in CPUS : cpu_done'[i] # cpu_done[i] =>
              /\ pc[i] \in {"c_set_done", "c_clear_done"} /\ pc'[i] # pc[i]
              /\ \A j \in CPUS \ {i} : pc'[j] = pc[j] /\ cpu_done'[j] = cpu_done[j]]_vars
    /\ [][done_reads' # done_reads =>
              /\ pc[0] = "c_chk_done" /\ pc'[0] # pc[0]
              /\ 1 \in online]_vars

\* CPU0 has read CPU1's flag in its wait loop, and both CPUs have since set
\* their own flags.
C27_Witness ==
    /\ done_reads = {[by |-> 0, flag |-> 1]}
    /\ cpu_done[0] /\ cpu_done[1]
    /\ InsideCoupled(0) /\ InsideCoupled(1)

\* Positions of omap_enter_idle_simple.
SimpleLabels == {"i_wfi", "i_sleep", "i_ret"}

\* What omap_enter_idle_simple leaves alone: the vote counters and their lock,
\* the completion flags, the barrier counter, the MPU domain's target and the
\* commands sent to it, every CPU's power state and every CPU's record of
\* notifier and domain calls.
simpleFrame == <<mpu_state_vote, mpu_lock, cpu_done, abort_barrier, mpu_next, mpu_log,
                 fpwrst, trace, done_reads, set_err>>

\* C28 (state 0, omap_enter_idle_simple): index 0 is bound to
\* omap_enter_idle_simple in both drivers; every step of a CPU inside it
\* leaves the vote counters, the completion flags, the barrier counter, the MPU
\* domain's target and every CPU's power state unchanged; the CPU makes no
\* broadcast or PM notifier call; its next statement can always be executed,
\* whatever the other CPU does, and it returns 0.
C28_SimpleFrame ==
    /\ [](/\ omap4_idle_driver(0) = "simple" /\ omap5_idle_driver(0) = "simple"
          /\ \A c \in CPUS :
                /\ pc[c] \in SimpleLabels => (trace[c] = <<>> /\ index[c] = 0)
                /\ pc[c] = "i_wfi" => ENABLED omap_do_wfi(c)
                /\ pc[c] = "i_sleep" => ENABLED Wakeup(c)
                /\ pc[c] = "i_ret" => ENABLED simple_return(c)
                /\ (Returned(c) /\ CurrentFn(c) = "simple" /\ driver # "none" /\ calls > 0)
                      => ret[c] = <<0>>)
    /\ [][(\E c \in CPUS : pc[c] \in SimpleLabels /\ pc'[c] # pc[c])
             => UNCHANGED simpleFrame]_vars

\* CPU0 is back from its wait for interrupt in state 0 while CPU1 sleeps in
\* the symmetric callback with its vote cast.
C28_Witness ==
    /\ pc[0] = "i_ret" /\ pc[1] = "s_sleep"
    /\ mpu_state_vote[SmpIdx] = 1
    /\ trace[0] = <<>>

====
